---------------------------- MODULE Spec2Model ----------------------------
(***************************************************************************)
(* dumpster::unsync -- the thread-local cycle-collecting pointer Gc<T>.    *)
(*                                                                         *)
(* The heap is a finite set of GcBox allocations.  A handle (Gc) is        *)
(* identified by the allocation it points to; handles live in user code    *)
(* (locals), inside payloads (value) or in a payload that is being torn    *)
(* down (the fields of a frame of the drop stack).                         *)
(*                                                                         *)
(* Gc::new, Gc::clone, Gc::drop, deref, as_ref, borrow, collect and the    *)
(* default collect condition are translated from unsync/mod.rs.  The       *)
(* Dumpster (unsync/collect.rs: notify_created_gc, notify_dropped_gc,      *)
(* mark_dirty, mark_cleaned, collect_all) is not among the sources; it is  *)
(* modelled from sections 4.D, 4.E and 4.F of the specification.           *)
(***************************************************************************)
EXTENDS Integers, Sequences, FiniteSets, TLC

\* ------------------------------------------------------------------ bounds
\* number of allocations ever made (addresses are not reused)
MaxAllocs == 2
\* number of handles that exist at the same time
MaxHandles == 3
\* cap on n_ref_drops for user drops (the counter is unbounded in the code)
MaxDrops == 3

\* the representable maximum of ref_count (NonZeroUsize::MAX on a 16-bit
\* target; the bounds above keep every count far below it)
UsizeMax == 65535

\* cap on the number of handles lost to mem::forget
MaxForgets == 2

\* the representable maximum of a narrow ref_count.  A handle is a pointer
\* and takes room in memory, so the maximum is above the number of handles
\* that can exist at the same time.
NarrowMax == MaxHandles + 1

Allocs == 1..MaxAllocs
\* the collect conditions user code installs: the default one, one that never
\* asks for a collection and one that panics when it is called
Policies == {"default", "never", "panics"}

NoBag == [a \in Allocs |-> 0]

RECURSIVE SumOver(_, _)
SumOver(f, S) ==
    IF S = {} THEN 0
    ELSE LET x == CHOOSE y \in S : TRUE IN f[x] + SumOver(f, S \ {x})

BagSize(b) == SumOver(b, Allocs)

VARIABLES
    nallocs,            \* number of GcBox allocations made so far
    ref_count,          \* GcBox::ref_count of every allocation
    value,              \* GcBox::value: the handles the payload owns
    locals,             \* handles held by user code, per target
    borrowed,           \* the payload's RefCell is mutably borrowed by user code
    suspects,           \* Dumpster: the suspect set
    n_refs_living,      \* Dumpster::n_refs_living
    n_ref_drops,        \* Dumpster::n_ref_drops
    collect_condition,  \* Dumpster::collect_condition
    collecting,         \* COLLECTING
    dropped,            \* how often drop_in_place ran on the payload
    freed,              \* how often the storage was released
    stack,              \* payloads being torn down, innermost last
    work,               \* the running collection, if any
    access,             \* outcome of the last dereference or borrow
    refused_once,       \* history: suspects whose visit a collection was refused
    recording,          \* whether the history is kept in this behaviour
    count_max,          \* NonZeroUsize::MAX of the target
    saturated,          \* history: allocations a clone found at count_max
    aborted             \* the thread panicked

vars == <<nallocs, ref_count, value, locals, borrowed, suspects, n_refs_living,
          n_ref_drops, collect_condition, collecting, dropped, freed, stack,
          work, access, refused_once, recording, count_max, saturated, aborted>>

\* The whole state as one record, so that the handlers compose as functions.
St ==
    [nallocs |-> nallocs, ref_count |-> ref_count, value |-> value,
     locals |-> locals, borrowed |-> borrowed, suspects |-> suspects,
     n_refs_living |-> n_refs_living, n_ref_drops |-> n_ref_drops,
     collect_condition |-> collect_condition, collecting |-> collecting,
     dropped |-> dropped, freed |-> freed, stack |-> stack, work |-> work,
     access |-> access, refused_once |-> refused_once,
     recording |-> recording, count_max |-> count_max,
     saturated |-> saturated, aborted |-> aborted]

Becomes(s) ==
    /\ nallocs' = s.nallocs
    /\ ref_count' = s.ref_count
    /\ value' = s.value
    /\ locals' = s.locals
    /\ borrowed' = s.borrowed
    /\ suspects' = s.suspects
    /\ n_refs_living' = s.n_refs_living
    /\ n_ref_drops' = s.n_ref_drops
    /\ collect_condition' = s.collect_condition
    /\ collecting' = s.collecting
    /\ dropped' = s.dropped
    /\ freed' = s.freed
    /\ stack' = s.stack
    /\ work' = s.work
    /\ access' = s.access
    /\ refused_once' = s.refused_once
    /\ recording' = s.recording
    /\ count_max' = s.count_max
    /\ saturated' = s.saturated
    /\ aborted' = s.aborted

NoWork == [phase |-> "idle", todo |-> {}, all |-> {}]
NoAccess == [via |-> "none", during_collection |-> FALSE, result |-> "none"]

InitWith(rec, max) ==
    /\ nallocs = 0
    /\ ref_count = NoBag
    /\ value = [a \in Allocs |-> NoBag]
    /\ locals = NoBag
    /\ borrowed = [a \in Allocs |-> FALSE]
    /\ suspects = {}
    /\ n_refs_living = 0
    /\ n_ref_drops = 0
    /\ collect_condition = "default"
    /\ collecting = FALSE
    /\ dropped = NoBag
    /\ freed = NoBag
    /\ stack = <<>>
    /\ work = NoWork
    /\ access = NoAccess
    /\ refused_once = {}
    /\ recording = rec
    /\ count_max = max
    /\ saturated = {}
    /\ aborted = FALSE

Init == InitWith(FALSE, UsizeMax)

\* the same program, with the history of refused visits kept
InitHist == InitWith(TRUE, UsizeMax)

\* the same program on a target with a narrow ref_count
InitNarrow == InitWith(FALSE, NarrowMax)

\* ----------------------------------------------------------- the heap graph
Allocated(s) == 1..s.nallocs

\* the payload has not been destroyed and the storage not released
Live(s, a) == a \in Allocated(s) /\ s.dropped[a] = 0 /\ s.freed[a] = 0

RECURSIVE FrameHandles(_, _)
FrameHandles(st, a) ==
    IF st = <<>> THEN 0 ELSE Head(st).fields[a] + FrameHandles(Tail(st), a)

\* the handles that currently exist and point to a
Holders(s, a) ==
    s.locals[a] + SumOver([b \in Allocs |-> s.value[b][a]], Allocs)
                + FrameHandles(s.stack, a)

\* all handles that currently exist
HandlesExisting(s) == SumOver([a \in Allocs |-> Holders(s, a)], Allocs)

RECURSIVE Closure(_, _)
Closure(s, R) ==
    LET more == {t \in Allocs : \E r \in R : s.value[r][t] > 0}
    IN IF more \subseteq R THEN R ELSE Closure(s, R \cup more)

\* reachable from a handle held in user code, directly or through payloads
Reach(s) == Closure(s, {a \in Allocs : s.locals[a] > 0})

Idle(s) == s.stack = <<>> /\ s.work.phase = "idle" /\ ~s.aborted


\* ------------------------------------------------- Dumpster (specification)
\* CollectInfo::n_gcs_dropped_since_last_collect
n_gcs_dropped_since_last_collect(s) == s.n_ref_drops

\* CollectInfo::n_gcs_existing
n_gcs_existing(s) == s.n_refs_living

\* a default condition that already asks for a collection at equality
default_collect_condition_eager(s) ==
    n_gcs_dropped_since_last_collect(s) >= n_gcs_existing(s)

default_collect_condition(s) ==
    n_gcs_dropped_since_last_collect(s) > n_gcs_existing(s)

\* the installed CollectCondition applied to the current CollectInfo
policy(s) ==
    IF s.collect_condition = "default" THEN default_collect_condition(s)
    ELSE FALSE

notify_created_gc(s) == [s EXCEPT !.n_refs_living = @ + 1]

mark_dirty(s, a) == [s EXCEPT !.suspects = @ \cup {a}]

mark_cleaned(s, a) == [s EXCEPT !.suspects = @ \ {a}]

\* accept() of the payload of a: refused while user code holds the mutable
\* borrow of its interior-mutable cell
Refused(s, a) == s.borrowed[a]

\* step 3: the tentative count of a suspect after the DecrementVisitor ran
\* over every suspect's payload
Tentative(s, S, a) ==
    s.ref_count[a]
      - SumOver([b \in Allocs |-> IF b \in S /\ ~Refused(s, b)
                                   THEN s.value[b][a] ELSE 0], Allocs)

\* step 4: the suspects with references from outside S, or whose visit failed
Roots(s, S) == {a \in S : Tentative(s, S, a) > 0 \/ Refused(s, a)}

\* step 4: the MarkVisitor sweep over the shadow graph
RECURSIVE Mark(_, _, _)
Mark(s, S, R) ==
    LET more == {t \in S : \E r \in R : ~Refused(s, r) /\ s.value[r][t] > 0}
    IN IF more \subseteq R THEN R ELSE Mark(s, S, R \cup more)

\* step 5: the suspects classified unreachable
Unreachable(s, S) == S \ Mark(s, S, Roots(s, S))

\* the orders in which accept can enumerate the handles of a payload: each
\* handle exactly once
HandleOrders(bag) ==
    {q \in [1..BagSize(bag) -> Allocs] :
        \A t \in Allocs : Cardinality({i \in 1..BagSize(bag) : q[i] = t}) = bag[t]}

\* the orders in which the collector can go through the suspects S
SuspectOrders(S) ==
    {q \in [1..Cardinality(S) -> S] :
        \A i, j \in 1..Cardinality(S) : q[i] = q[j] => i = j}

\* a choice of enumeration order for the payload of every suspect
PayloadOrders(s, S) ==
    {ho \in [S -> UNION {HandleOrders(s.value[x]) : x \in S}] :
        \A x \in S : ho[x] \in HandleOrders(s.value[x])}

\* a DecrementVisitor that gives up after the first handle of a payload
DecrementVisitorFirstOnly(tent, S, hs) ==
    IF hs = <<>> \/ Head(hs) \notin S THEN tent
    ELSE [tent EXCEPT ![Head(hs)] = @ - 1]

\* step 3, one payload: the DecrementVisitor takes the handles hs in turn
\* and decrements the tentative count of every target in S
RECURSIVE DecrementVisitor(_, _, _)
DecrementVisitor(tent, S, hs) ==
    IF hs = <<>> THEN tent
    ELSE DecrementVisitor(IF Head(hs) \in S
                          THEN [tent EXCEPT ![Head(hs)] = @ - 1] ELSE tent,
                          S, Tail(hs))

\* step 3, all suspects in the order ord; a refused visit decrements nothing
RECURSIVE DecrementPhase(_, _, _, _, _)
DecrementPhase(s, S, tent, ord, ho) ==
    IF ord = <<>> THEN tent
    ELSE DecrementPhase(s, S,
                        IF Refused(s, Head(ord)) THEN tent
                        ELSE DecrementVisitor(tent, S, ho[Head(ord)]),
                        Tail(ord), ho)

\* step 4: the MarkVisitor sweep as a worklist, depth first, following the
\* handles of each payload in its enumeration order
RECURSIVE MarkVisitor(_, _, _, _, _)
MarkVisitor(s, S, marked, todo, ho) ==
    IF todo = <<>> THEN marked
    ELSE LET x == Head(todo)
             inS(t) == t \in S
         IN IF x \in marked THEN MarkVisitor(s, S, marked, Tail(todo), ho)
            ELSE MarkVisitor(s, S, marked \cup {x},
                             (IF Refused(s, x) THEN <<>>
                              ELSE SelectSeq(ho[x], inS)) \o Tail(todo), ho)

\* steps 2-5 carried out in the orders ord and ho: the suspects found
\* unreachable
UnreachableInOrder(s, S, ord, ho) ==
    LET tent == DecrementPhase(s, S, [a \in Allocs |-> s.ref_count[a]], ord, ho)
        isRoot(x) == tent[x] > 0 \/ Refused(s, x)
    IN S \ MarkVisitor(s, S, {}, SelectSeq(ord, isRoot), ho)

\* a collector that puts the suspects it classified reachable back
collect_all_reinserting(s) ==
    LET S == s.suspects
        U == Unreachable(s, S)
        s1 == [s EXCEPT !.suspects = S \ U,
                        !.refused_once = IF s.recording
                                         THEN @ \cup {a \in S : Refused(s, a)}
                                         ELSE @]
    IN IF U = {}
       THEN [s1 EXCEPT !.n_ref_drops = 0]
       ELSE [s1 EXCEPT !.collecting = TRUE,
                       !.ref_count = [a \in Allocs |-> IF a \in U THEN 0 ELSE @[a]],
                       !.work = [phase |-> "destroy", todo |-> U, all |-> U]]

\* a collector that does not look at the guard when it is entered: the run
\* finds the suspect set empty, and clears the guard when it is over
collect_all_reentrant(s) ==
    LET S == s.suspects
        U == Unreachable(s, S)
        s1 == [s EXCEPT !.suspects = {},
                        !.refused_once = IF s.recording
                                         THEN @ \cup {a \in S : Refused(s, a)}
                                         ELSE @]
    IN IF U = {}
       THEN [s1 EXCEPT !.n_ref_drops = 0, !.collecting = FALSE]
       ELSE [s1 EXCEPT !.collecting = TRUE,
                       !.ref_count = [a \in Allocs |-> IF a \in U THEN 0 ELSE @[a]],
                       !.work = [phase |-> "destroy", todo |-> U, all |-> U]]

\* steps 1-7 up to the first destructor: snapshot, classify, set the guard
\* and turn the unreachable suspects into zombies.  A run that finds nothing
\* to destroy is over at once.  The guard prevents recursive collection
\* (sections 2 and 5): a call made while a collection runs returns at once.
collect_all(s) ==
    LET S == s.suspects
        U == Unreachable(s, S)
        s1 == [s EXCEPT !.suspects = {},
                        !.refused_once = IF s.recording
                                         THEN @ \cup {a \in S : Refused(s, a)}
                                         ELSE @]
    IN IF s.collecting THEN s
       ELSE IF U = {}
       THEN [s1 EXCEPT !.n_ref_drops = 0]
       ELSE [s1 EXCEPT !.collecting = TRUE,
                       !.ref_count = [a \in Allocs |-> IF a \in U THEN 0 ELSE @[a]],
                       !.work = [phase |-> "destroy", todo |-> U, all |-> U]]

\* step 7, first pass, one allocation: run drop_payload on it
destroy_unreachable(s, u) ==
    LET s1 == [s EXCEPT !.dropped[u] = @ + 1, !.value[u] = NoBag,
                        !.work.todo = @ \ {u}]
    IN IF BagSize(s.value[u]) = 0 THEN s1
       ELSE [s1 EXCEPT !.stack = Append(@, [box |-> u, fields |-> s.value[u],
                                           orig |-> s.value[u], by |-> "collect"])]

\* a second pass that forgets to clear the guard
finish_collect_guard_left(s) ==
    [s EXCEPT !.freed = [a \in Allocs |-> IF a \in s.work.all THEN @[a] + 1 ELSE @[a]],
              !.n_ref_drops = 0,
              !.work = NoWork]

\* a second pass that leaves n_ref_drops as the drops before the run left it
finish_collect_keeping_drops(s) ==
    [s EXCEPT !.freed = [a \in Allocs |-> IF a \in s.work.all THEN @[a] + 1 ELSE @[a]],
              !.collecting = FALSE,
              !.work = NoWork]

\* a second pass that never gets done
finish_collect_stuck(s) == s

\* step 7, second pass, and step 8: release the storage, clear the guard;
\* collect_all then zeroes n_ref_drops
finish_collect(s) ==
    [s EXCEPT !.freed = [a \in Allocs |-> IF a \in s.work.all THEN @[a] + 1 ELSE @[a]],
              !.collecting = FALSE,
              !.n_ref_drops = 0,
              !.work = NoWork]

\* a notification that does not count the drop
notify_dropped_gc_uncounted(s) ==
    LET s1 == [s EXCEPT !.n_refs_living = @ - 1]
    IN IF s1.collect_condition = "panics"
       THEN [s1 EXCEPT !.aborted = TRUE,
                       !.access = [via |-> "policy",
                                   during_collection |-> s1.collecting,
                                   result |-> "panic"]]
       ELSE IF policy(s1) THEN collect_all(s1) ELSE s1

\* the panic of the collect condition propagates to the operation that
\* dropped the handle
notify_dropped_gc(s) ==
    LET s1 == [s EXCEPT !.n_ref_drops = @ + 1, !.n_refs_living = @ - 1]
    IN IF s1.collect_condition = "panics"
       THEN [s1 EXCEPT !.aborted = TRUE,
                       !.access = [via |-> "policy",
                                   during_collection |-> s1.collecting,
                                   result |-> "panic"]]
       ELSE IF policy(s1) THEN collect_all(s1) ELSE s1

\* ------------------------------------------------------- Gc<T> (mod.rs)
saturating_add(n, k, max) == IF n + k > max THEN max ELSE n + k

\* a Gc::new that enters the fresh allocation into the suspect set
gc_new_suspect(s) ==
    LET a == s.nallocs + 1
        s1 == mark_dirty(notify_created_gc(s), a)
    IN [s1 EXCEPT !.nallocs = a, !.ref_count[a] = 1, !.locals[a] = @ + 1]

\* Gc::new: the fresh allocation gets the next address; the handle is held
\* by user code
gc_new(s) ==
    LET a == s.nallocs + 1
        s1 == notify_created_gc(s)
    IN [s1 EXCEPT !.nallocs = a, !.ref_count[a] = 1, !.locals[a] = @ + 1]

\* a clone that forgets to count the new handle
gc_clone_uncounted(s, a) ==
    LET s2 == notify_created_gc(s)
    IN [s2 EXCEPT !.locals[a] = @ + 1]

\* a clone that takes its target out of the suspect set
gc_clone_cleaning(s, a) ==
    LET s1 == [s EXCEPT !.ref_count[a] = saturating_add(@, 1, s.count_max),
                        !.saturated = IF s.ref_count[a] = s.count_max
                                      THEN @ \cup {a} ELSE @]
        s2 == mark_cleaned(notify_created_gc(s1), a)
    IN [s2 EXCEPT !.locals[a] = @ + 1]

\* a clone whose count wraps around at the maximum (1 is the least NonZeroUsize)
gc_clone_wrapping(s, a) ==
    LET s1 == [s EXCEPT !.ref_count[a] = IF @ = s.count_max THEN 1 ELSE @ + 1,
                        !.saturated = IF s.ref_count[a] = s.count_max
                                      THEN @ \cup {a} ELSE @]
        s2 == notify_created_gc(s1)
    IN [s2 EXCEPT !.locals[a] = @ + 1]

\* Clone::clone of a handle to a; the new handle is held by user code
gc_clone(s, a) ==
    LET s1 == [s EXCEPT !.ref_count[a] = saturating_add(@, 1, s.count_max),
                        !.saturated = IF s.ref_count[a] = s.count_max
                                      THEN @ \cup {a} ELSE @]
        s2 == notify_created_gc(s1)
    IN [s2 EXCEPT !.locals[a] = @ + 1]

\* dealloc of the box and the trailing notify_dropped_gc of Drop::drop
finish_drop(s, a) == notify_dropped_gc([s EXCEPT !.freed[a] = @ + 1])

\* a drop that does not look at COLLECTING
gc_drop_unguarded(s, a) ==
    IF s.ref_count[a] = 1
    THEN LET s1 == mark_cleaned(s, a)
             s2 == [s1 EXCEPT !.dropped[a] = @ + 1, !.value[a] = NoBag]
         IN IF BagSize(s.value[a]) = 0 THEN finish_drop(s2, a)
            ELSE [s2 EXCEPT !.stack = Append(@, [box |-> a, fields |-> s.value[a],
                                                orig |-> s.value[a], by |-> "drop"])]
    ELSE IF s.ref_count[a] = 0
    THEN [s EXCEPT !.aborted = TRUE]
    ELSE notify_dropped_gc(mark_dirty([s EXCEPT !.ref_count[a] = @ - 1], a))

\* a last drop that leaves the allocation in the suspect set
gc_drop_keeping_suspect(s, a) ==
    IF s.collecting THEN s
    ELSE IF s.ref_count[a] = 1
    THEN LET s2 == [s EXCEPT !.dropped[a] = @ + 1, !.value[a] = NoBag]
         IN IF BagSize(s.value[a]) = 0 THEN finish_drop(s2, a)
            ELSE [s2 EXCEPT !.stack = Append(@, [box |-> a, fields |-> s.value[a],
                                                orig |-> s.value[a], by |-> "drop"])]
    ELSE IF s.ref_count[a] = 0
    THEN [s EXCEPT !.aborted = TRUE]
    ELSE notify_dropped_gc(mark_dirty([s EXCEPT !.ref_count[a] = @ - 1], a))

\* a drop that takes the last-but-one handle for the last one
gc_drop_eager(s, a) ==
    IF s.collecting THEN s
    ELSE IF s.ref_count[a] \in {1, 2}
    THEN LET s1 == mark_cleaned(s, a)
             s2 == [s1 EXCEPT !.dropped[a] = @ + 1, !.value[a] = NoBag]
         IN IF BagSize(s.value[a]) = 0 THEN finish_drop(s2, a)
            ELSE [s2 EXCEPT !.stack = Append(@, [box |-> a, fields |-> s.value[a],
                                                orig |-> s.value[a], by |-> "drop"])]
    ELSE IF s.ref_count[a] = 0
    THEN [s EXCEPT !.aborted = TRUE]
    ELSE notify_dropped_gc(mark_dirty([s EXCEPT !.ref_count[a] = @ - 1], a))

\* Drop::drop of a handle to a (the caller has taken the handle out of the
\* place that held it).  drop_in_place of a payload that owns handles opens
\* a frame: its fields are dropped one by one, then the box is released.
gc_drop(s, a) ==
    IF s.collecting THEN s
    ELSE IF s.ref_count[a] = 1
    THEN LET s1 == mark_cleaned(s, a)
             s2 == [s1 EXCEPT !.dropped[a] = @ + 1, !.value[a] = NoBag]
         IN IF BagSize(s.value[a]) = 0 THEN finish_drop(s2, a)
            ELSE [s2 EXCEPT !.stack = Append(@, [box |-> a, fields |-> s.value[a],
                                                orig |-> s.value[a], by |-> "drop"])]
    ELSE IF s.ref_count[a] = 0
    THEN [s EXCEPT !.aborted = TRUE]
    ELSE notify_dropped_gc(mark_dirty([s EXCEPT !.ref_count[a] = @ - 1], a))

\* Deref::deref
deref(s, a) == IF s.collecting THEN "panic" ELSE "value"

\* AsRef::as_ref
as_ref(s, a) == "value"

\* Borrow::borrow
borrow(s, a) == as_ref(s, a)

\* collect()
collect(s) == collect_all(s)

\* set_collect_condition
set_collect_condition(s, f) == [s EXCEPT !.collect_condition = f]

\* ------------------------------------------------------------- user code
\* at most this many payload cells are mutably borrowed at the same time
MaxBorrows == 1

\* user code starts a new operation: the outcome of the last access is gone
Fresh(s) == [s EXCEPT !.access = NoAccess]

\* the handle to a that user code holds is tied up by the RefMut taken
\* through it, and cannot be moved or dropped
Pinned(s, a) == s.borrowed[a] /\ s.locals[a] = 1

\* let x = Gc::new(..)
New ==
    /\ Idle(St)
    /\ nallocs < MaxAllocs
    /\ HandlesExisting(St) < MaxHandles
    /\ Becomes(gc_new(Fresh(St)))

\* let y = Gc::clone(&x), of any handle user code can get at
Clone(a) ==
    /\ Idle(St)
    /\ a \in Reach(St)
    /\ HandlesExisting(St) < MaxHandles
    /\ Becomes(gc_clone(Fresh(St), a))

\* b.refs.borrow_mut().push(x): a handle held by user code moves into the
\* payload of b
Store(b, a) ==
    /\ Idle(St)
    /\ locals[a] > 0
    /\ ~Pinned(St, a)
    /\ b \in Reach([St EXCEPT !.locals[a] = @ - 1])
    /\ deref(St, b) = "value"
    /\ Becomes([Fresh(St) EXCEPT !.locals[a] = @ - 1, !.value[b][a] = @ + 1])

\* let x = b.refs.borrow_mut().pop(): a handle moves out of the payload of b
Take(b, a) ==
    /\ Idle(St)
    /\ b \in Reach(St)
    /\ value[b][a] > 0
    /\ deref(St, b) = "value"
    /\ Becomes([Fresh(St) EXCEPT !.locals[a] = @ + 1, !.value[b][a] = @ - 1])

\* drop(x) in user code
Drop(a) ==
    /\ Idle(St)
    /\ locals[a] > 0
    /\ ~Pinned(St, a)
    /\ n_ref_drops < MaxDrops
    /\ Becomes(gc_drop([Fresh(St) EXCEPT !.locals[a] = @ - 1], a))

\* collect() in user code
Collect ==
    /\ Idle(St)
    /\ Becomes(collect(Fresh(St)))

\* set_collect_condition(f) in user code
SetCollectCondition(f) ==
    /\ Idle(St)
    /\ f # collect_condition
    /\ Becomes(set_collect_condition(Fresh(St), f))

\* let r = x.refs.borrow_mut(), kept
BorrowMut(a) ==
    /\ Idle(St)
    /\ locals[a] > 0
    /\ ~borrowed[a]
    /\ Cardinality({b \in Allocs : borrowed[b]}) < MaxBorrows
    /\ deref(St, a) = "value"
    /\ Becomes([Fresh(St) EXCEPT !.borrowed[a] = TRUE])

\* drop(r)
ReleaseBorrow(a) ==
    /\ Idle(St)
    /\ borrowed[a]
    /\ Becomes([Fresh(St) EXCEPT !.borrowed[a] = FALSE])

\* &*x in user code: the guard is clear, the payload is borrowed and nothing
\* else changes
UserDeref(a) ==
    /\ Idle(St)
    /\ locals[a] > 0
    /\ deref(St, a) = "value"
    /\ Becomes(Fresh(St))

\* --------------------------------------------- destructors and the collector
Top == stack[Len(stack)]

\* the innermost activity is the teardown of a payload
Tearing ==
    /\ ~aborted
    /\ stack # <<>>
    /\ (IF work.phase = "idle" THEN TRUE ELSE Top.by = "collect")

WithoutField(s, t) == [s EXCEPT !.stack[Len(s.stack)].fields[t] = @ - 1]

Pop(s) == [s EXCEPT !.stack = SubSeq(@, 1, Len(@) - 1)]

\* the outcome of an access through a handle to t
Outcome(s, via, t) ==
    IF via = "deref" THEN deref(s, t)
    ELSE IF via = "as_ref" THEN as_ref(s, t)
    ELSE borrow(s, t)

\* the Drop impl of the payload looks through one of the handles it owns
AccessInDrop(via, t) ==
    /\ Tearing
    /\ Top.fields = Top.orig
    /\ Top.fields[t] > 0
    /\ access = NoAccess
    /\ LET r == Outcome(St, via, t)
       IN Becomes([St EXCEPT !.access = [via |-> via, during_collection |-> collecting,
                                         result |-> r],
                             !.aborted = (r = "panic")])

\* the Drop impl of the payload calls collect(); a call made during a
\* collection is kept as the last access
CollectInDrop ==
    /\ Tearing
    /\ Top.fields = Top.orig
    /\ access = NoAccess
    /\ Becomes(collect([St EXCEPT !.access =
                          IF collecting
                          THEN [via |-> "collect", during_collection |-> TRUE,
                                result |-> "returned"]
                          ELSE NoAccess]))

\* drop glue: the Drop impl has returned and the next handle the payload owns
\* is dropped
FieldDrop(t) ==
    /\ Tearing
    /\ Top.fields[t] > 0
    /\ Becomes(gc_drop(WithoutField(Fresh(St), t), t))

\* drop glue is through: Drop::drop releases the box and notifies the
\* dumpster; the collector goes on to its next allocation
FrameDone ==
    /\ Tearing
    /\ BagSize(Top.fields) = 0
    /\ IF Top.by = "drop"
       THEN Becomes(finish_drop(Pop(St), Top.box))
       ELSE Becomes(Pop(St))

\* the collector is between two destructors
Collecting ==
    /\ ~aborted
    /\ work.phase = "destroy"
    /\ (IF stack = <<>> THEN TRUE ELSE Top.by = "drop")

CollectorDestroy(u) ==
    /\ Collecting
    /\ u \in work.todo
    /\ Becomes(destroy_unreachable(St, u))

CollectorFinish ==
    /\ Collecting
    /\ work.todo = {}
    /\ Becomes(finish_collect(St))

Vias == {"deref", "as_ref", "borrow"}

Next ==
    \/ New
    \/ \E a \in Allocs : Clone(a)
    \/ \E a, b \in Allocs : Store(b, a)
    \/ \E a, b \in Allocs : Take(b, a)
    \/ \E a \in Allocs : Drop(a)
    \/ Collect
    \/ \E f \in Policies : SetCollectCondition(f)
    \/ \E a \in Allocs : BorrowMut(a)
    \/ \E a \in Allocs : ReleaseBorrow(a)
    \/ \E a \in Allocs : UserDeref(a)
    \/ \E via \in Vias, t \in Allocs : AccessInDrop(via, t)
    \/ CollectInDrop
    \/ \E t \in Allocs : FieldDrop(t)
    \/ FrameDone
    \/ \E u \in Allocs : CollectorDestroy(u)
    \/ CollectorFinish

Spec == Init /\ [][Next]_vars

SpecHist == InitHist /\ [][Next]_vars

\* std::mem::forget(x) in user code: the handle is gone and Drop::drop does
\* not run
Forget(a) ==
    /\ Idle(St)
    /\ locals[a] > 0
    /\ ~Pinned(St, a)
    /\ n_refs_living - HandlesExisting(St) < MaxForgets
    /\ Becomes([Fresh(St) EXCEPT !.locals[a] = @ - 1])

NextNarrow ==
    \/ Next
    \/ \E a \in Allocs : Forget(a)

\* user code that also forgets handles, on a target with a narrow ref_count
SpecNarrow == InitNarrow /\ [][NextNarrow]_vars

\* one step of drop glue or of the collector: neither waits for anything, so
\* a teardown or a collection that can go on does go on
RunsOn ==
    \/ \E t \in Allocs : FieldDrop(t)
    \/ FrameDone
    \/ \E u \in Allocs : CollectorDestroy(u)
    \/ CollectorFinish

\* the program with its destructors and collections running to completion
SpecLive == Init /\ [][Next]_vars /\ WF_vars(RunsOn)

TypeOK ==
    /\ nallocs \in 0..MaxAllocs
    /\ \A a \in Allocs : ref_count[a] \in 0..UsizeMax
    /\ n_refs_living >= 0
    /\ n_ref_drops >= 0
    /\ count_max \in 1..UsizeMax

\* ------------------------------------------------------------ properties
\* no operation is in progress: a stable point outside a collection
Stable == Idle(St)

\* the handles to a still owned by payloads that a last drop is tearing down
RECURSIVE DropFrameHandles(_, _)
DropFrameHandles(st, a) ==
    IF st = <<>> THEN 0
    ELSE (IF Head(st).by = "drop" THEN Head(st).fields[a] ELSE 0)
           + DropFrameHandles(Tail(st), a)

\* reachable from a handle held in user code or still owned by a payload
\* that a last drop is tearing down
ReachRoots(s) ==
    Closure(s, {a \in Allocs : s.locals[a] > 0 \/ DropFrameHandles(s.stack, a) > 0})

\* a step at which a collection started by collect() in user code or in a
\* destructor, or a collection that ran destructors, returns
CollectionReturns ==
    \/ work'.phase = "idle" /\ Collect
    \/ work'.phase = "idle" /\ ~collecting /\ CollectInDrop
    \/ work.phase = "destroy" /\ work'.phase = "idle"

\* live allocations that no user-held handle reaches
Garbage(s) == {a \in Allocated(s) : Live(s, a) /\ a \notin ReachRoots(s)}

\* a lies on a cycle of payload handles
OnCycle(s, a) == a \in Closure(s, {t \in Allocs : s.value[a][t] > 0})

\* C1: a collection destroys exactly the unreachable allocations: none of
\* the allocations it destroys is reachable from a handle held in user code,
\* and when it returns no live allocation is unreachable.
C1_CollectionDestroysExactlyUnreachable ==
    [][/\ work'.phase = "destroy" => work'.all \cap Reach(St)' = {}
       /\ CollectionReturns => Garbage(St)' = {}]_vars

\* C1, the half that holds: no allocation a collection destroys is reachable
\* from a handle held in user code.
C1_NoReachableDestroyed ==
    work.phase = "destroy" => work.all \cap ReachRoots(St) = {}

\* C2: when a collection returns, every allocation that participates in an
\* unreachable cycle has had its destructor run exactly once and its header
\* freed exactly once, so no live allocation on an unreachable cycle is left.
C2_UnreachableCyclesFreed ==
    [][CollectionReturns =>
         /\ \A a \in Garbage(St)' : ~OnCycle(St, a)'
         /\ \A a \in Allocs : dropped'[a] <= 1 /\ freed'[a] = dropped'[a]]_vars

\* an allocation is being torn down: by a last drop (a frame of the stack)
\* or by the running collection
InTeardown(a) ==
    \/ \E i \in 1..Len(stack) : stack[i].box = a
    \/ a \in work.all

C4_NoHandlesMeansDestroyed ==
    Stable => \A a \in Allocated(St) :
                  Holders(St, a) = 0 /\ ~OnCycle(St, a) => dropped[a] = 1

\* C5: at every stable point the strong count of each live allocation is the
\* number of handles that hold it.
C5_CountIsHolders ==
    Stable => \A a \in Allocs : Live(St, a) => ref_count[a] = Holders(St, a)

\* C6: whenever a dereference is permitted (collecting is false), the target
\* of every handle that exists is a live allocation with a strong count of
\* at least 1.
C6_DerefTargetsLive ==
    ~collecting =>
        \A a \in Allocs : Holders(St, a) > 0 => Live(St, a) /\ ref_count[a] >= 1

\* C6 witness: a last drop is tearing a payload down outside a collection,
\* and a handle that payload still owns points to a live allocation that
\* user code holds too.
C6_Witness ==
    /\ ~collecting
    /\ stack # <<>>
    /\ \E a \in Allocs :
          FrameHandles(stack, a) > 0 /\ locals[a] > 0 /\ Live(St, a)

\* C7: every access to a payload (deref, as_ref, borrow) attempted while
\* collecting is true fails with a panic.
C7_AccessDuringCollectionPanics ==
    access.via \in Vias /\ access.during_collection => access.result = "panic"

\* C7, the part that holds: deref panics while collecting is true.
C7_DerefDuringCollectionPanics ==
    access.via = "deref" /\ access.during_collection => access.result = "panic"

\* C8: a handle drop performed while collecting is true changes neither a
\* strong count nor the suspect set nor the counters, destroys and releases
\* nothing and starts no collection.
C8_DropWhileCollectingIsNoOp ==
    [][collecting /\ (\E t \in Allocs : FieldDrop(t)) =>
         UNCHANGED <<ref_count, suspects, n_refs_living, n_ref_drops, dropped,
                     freed, work, collecting, value, locals, aborted>>]_vars

\* C8 witness: the collector runs a destructor and handles of that payload
\* have been dropped under the guard.
C8_Witness ==
    /\ collecting
    /\ stack # <<>>
    /\ stack[Len(stack)].by = "collect"
    /\ BagSize(stack[Len(stack)].fields) < BagSize(stack[Len(stack)].orig)

\* C9: at every stable point n_gcs_existing reports the number of handles
\* that exist.
C9_LivingIsHandles ==
    Stable => n_gcs_existing(St) = HandlesExisting(St)

\* C10: a collection never destroys an allocation whose visit is refused,
\* and once the borrow is released and the allocation is unreachable, a
\* collection that returns leaves it destroyed, exactly once.
C10_RefusedKeptThenCollected ==
    [][/\ \A a \in Allocs : borrowed'[a] => a \notin work'.all /\ dropped'[a] = 0
       /\ CollectionReturns =>
            \A a \in refused_once' :
                ~borrowed'[a] /\ a \notin ReachRoots(St)' /\ Holders(St, a)' > 0
                    => dropped'[a] = 1]_vars

\* C10, the half that holds: an allocation whose visit a collection was
\* refused is not destroyed while the borrow lasts.
C10_RefusedNotDestroyed ==
    \A a \in Allocs : borrowed[a] => Live(St, a) /\ a \notin work.all

\* C11: collect() called again right after a collection has returned destroys
\* nothing and leaves every strong count, the suspect set and the counters
\* (the whole state, in fact) as the first call left them.
C11_SecondCollectIsNoOp ==
    [][CollectionReturns => collect(Fresh(St))' = Fresh(St)']_vars

\* C11 witness: with the policy switched off, collect() has returned after
\* an allocation was destroyed and released, nothing was dropped since, and
\* another allocation is still held.
C11_Witness ==
    /\ Stable
    /\ n_ref_drops = 0
    /\ suspects = {}
    /\ collect_condition = "never"
    /\ \E a \in Allocs : freed[a] = 1
    /\ \E b \in Allocs : Live(St, b) /\ locals[b] > 0

C13_SaturatedIsPinned ==
    [][/\ \A a \in Allocs :
            Clone(a) /\ ref_count[a] = count_max => ref_count'[a] = count_max
       /\ \A a \in saturated' :
            /\ Live(St, a)'
            /\ a \notin work'.all
            /\ ref_count'[a] > Holders(St, a)']_vars

\* C13 witness: every handle to an allocation whose count had saturated has
\* been dropped, a collection has returned since, and the allocation is
\* still there.
C13_Witness ==
    /\ Stable
    /\ n_ref_drops = 0
    /\ \E a \in saturated : Holders(St, a) = 0 /\ Live(St, a)

\* the step is drop(x) in user code, of a handle to a
DropsLocal(a) == locals'[a] = locals[a] - 1 /\ Drop(a)

\* allocation a is as Gc::new has just made it: one handle, held by user
\* code, an empty payload, not a suspect
FreshlyCreated(a) ==
    /\ a = nallocs
    /\ Live(St, a)
    /\ ref_count[a] = 1
    /\ locals[a] = 1
    /\ Holders(St, a) = 1
    /\ BagSize(value[a]) = 0
    /\ ~borrowed[a]
    /\ a \notin suspects

\* the step leaves the suspect set, and the count and the liveness of every
\* allocation but a, as they were
OthersUntouched(a) ==
    /\ suspects' = suspects
    /\ \A b \in Allocs \ {a} :
          ref_count'[b] = ref_count[b] /\ (Live(St, b)' <=> Live(St, b))

\* the drop about to happen makes the collect condition ask for a collection
WouldCollect ==
    policy([St EXCEPT !.n_ref_drops = @ + 1, !.n_refs_living = @ - 1])

DropCompletes ==
    \/ \E a \in Allocs : (ref_count[a] > 1 \/ BagSize(value[a]) = 0) /\ DropsLocal(a)
    \/ \E t \in Allocs :
          ~collecting /\ (ref_count[t] > 1 \/ BagSize(value[t]) = 0) /\ FieldDrop(t)
    \/ stack # <<>> /\ stack[Len(stack)].by = "drop" /\ FrameDone

\* C15: n_gcs_dropped_since_last_collect is the number of handle drops since
\* the last collection: it is 0 when a collection returns, every drop
\* completed outside a collection adds exactly 1 to it (unless the drop runs
\* a collection, which returns with 0), and nothing else changes it.
C15_DropsSinceLastCollect ==
    /\ [](~collecting /\ ~aborted /\ collect(St).work.phase = "idle"
             => n_gcs_dropped_since_last_collect(collect(St)) = 0)
    /\ [][/\ work.phase = "destroy" /\ work'.phase = "idle"
               => n_gcs_dropped_since_last_collect(St)' = 0
          /\ DropCompletes =>
            n_gcs_dropped_since_last_collect(St)' =
                   IF WouldCollect /\ work'.phase = "idle" THEN 0
                   ELSE n_gcs_dropped_since_last_collect(St) + 1
          /\ \/ n_gcs_dropped_since_last_collect(St)' = n_gcs_dropped_since_last_collect(St)
             \/ DropCompletes
             \/ CollectionReturns]_vars

\* C15 witness: a collection that destroyed a payload owning a handle has
\* returned, and two handles were dropped since.
C15_Witness ==
    /\ Stable
    /\ n_gcs_dropped_since_last_collect(St) = 2
    /\ n_refs_living > HandlesExisting(St)
    /\ \E a \in Allocs : freed[a] = 1

\* C16: every address in the suspect set references a live allocation with a
\* strong count of at least 1: an allocation leaves the suspect set before
\* its payload is destroyed, on the last-drop path and in the collector.
C16_SuspectsAreLive ==
    \A a \in suspects : Live(St, a) /\ ref_count[a] >= 1 /\ a \notin work.all

\* C16 witness: a last drop is tearing down a payload, and the drop of one of
\* its handles has made another allocation a suspect.
C16_Witness ==
    /\ stack # <<>>
    /\ stack[Len(stack)].by = "drop"
    /\ dropped[stack[Len(stack)].box] = 1
    /\ BagSize(stack[Len(stack)].fields) < BagSize(stack[Len(stack)].orig)
    /\ suspects # {}

\* the step ran collect_all: the run is over, or it has destructors to run
CollectAllRan == n_ref_drops' = 0 \/ work'.phase = "destroy"

\* C17: every drop completed outside a collection decrements n_refs_living
\* and increments n_ref_drops after its count handling, and then runs
\* collect_all, on the suspect set that count handling left, if and only if
\* the collect condition holds of the updated counters: under the default
\* condition, exactly when n_ref_drops > n_refs_living.
C17_PolicyConsultedOnDrop ==
    [][DropCompletes =>
         /\ n_refs_living' = n_refs_living - 1
         /\ CollectAllRan <=> WouldCollect
         /\ collect_condition = "default" =>
                (CollectAllRan <=> n_ref_drops + 1 > n_refs_living - 1)
         /\ CollectAllRan => suspects' = {}
         /\ ~CollectAllRan => n_ref_drops' = n_ref_drops + 1]_vars

\* C17 witness: under the default condition a drop has started a collection
\* that has destructors to run, with more drops counted than handles living.
C17_Witness ==
    /\ collect_condition = "default"
    /\ work.phase = "destroy"
    /\ work.todo = work.all
    /\ n_ref_drops > n_refs_living

\* the allocations whose handle the step drops
DroppedNow == {a \in Allocs : DropsLocal(a) \/ FieldDrop(a)}

\* C18: a collection destroys only suspects that were present when it
\* started, adds no victim later, leaves the suspect set empty while it runs
\* and when it returns (no suspect classified reachable is put back), and no
\* drop made during the collection adds an entry.
C18_CollectionTakesSnapshot ==
    [][/\ work.phase = "idle" /\ work'.phase = "destroy" =>
            suspects' = {} /\ work'.all \subseteq suspects \cup DroppedNow
       /\ work.phase = "destroy" /\ work'.phase = "destroy" =>
            work'.all = work.all /\ work'.todo \subseteq work.todo
       /\ collecting \/ collecting' => suspects' = {}
       /\ CollectionReturns => suspects' = {}]_vars

\* C18 witness: during a collection a destructor has dropped a handle to an
\* allocation that survives the collection, and the suspect set is empty.
C18_Witness ==
    /\ collecting
    /\ stack # <<>>
    /\ stack[Len(stack)].by = "collect"
    /\ suspects = {}
    /\ \E b \in Allocs \ work.all :
          /\ Live(St, b)
          /\ stack[Len(stack)].fields[b] < stack[Len(stack)].orig[b]

\* the step runs collect_all: collect() in user code, or a drop at which the
\* collect condition holds
RunsCollectAll == Collect \/ CollectInDrop \/ (DropCompletes /\ WouldCollect)

\* C19: an allocation enters the suspect set only through a non-last drop of
\* a handle to it outside a collection, which takes its count from n > 1 to
\* n-1, and every such drop enters it; it leaves the set only through its
\* last drop or a run of collect_all; Gc::new and clone leave the suspect set
\* as it is, also when the target of the clone is a suspect.
C19_SuspectsChangeOnlyByDrop ==
    [][/\ \A a \in suspects' \ suspects :
            /\ a \in DroppedNow
            /\ ~collecting
            /\ ref_count[a] > 1
            /\ ref_count'[a] = ref_count[a] - 1
       /\ \A a \in Allocs :
            \/ a \in suspects'
            \/ collecting
            \/ ref_count[a] <= 1
            \/ WouldCollect
            \/ a \notin DroppedNow
       /\ \A a \in suspects \ suspects' :
            (a \in DroppedNow /\ ref_count[a] = 1) \/ RunsCollectAll
       /\ suspects' = suspects \/ ~(New \/ (\E a \in Allocs : Clone(a)))]_vars

\* C19 witness: an allocation became a suspect by a non-last drop and was
\* cloned afterwards, up to the most handles there can be: it is still a
\* suspect.
C19_Witness ==
    /\ Stable
    /\ n_ref_drops >= 1
    /\ \E a \in suspects : locals[a] = MaxHandles /\ ref_count[a] = MaxHandles

RECURSIVE MarkRounds(_, _, _)
MarkRounds(s, S, R) ==
    LET more == {t \in S : \E r \in R : ~Refused(s, r) /\ s.value[r][t] > 0}
    IN IF more \subseteq R THEN 1 ELSE 1 + MarkRounds(s, S, R \cup more)

SameCycle(s, a) ==
    {b \in Allocs : /\ b \in Closure(s, {t \in Allocs : s.value[a][t] > 0})
                    /\ a \in Closure(s, {t \in Allocs : s.value[b][t] > 0})}

\* C22: a collection started by collect() in user code takes as its victims
\* every member of an unreachable cycle of which a member is a suspect, no
\* member is mutably borrowed, and another member is no suspect at that
\* moment (for example because an earlier collection classified it reachable
\* and removed it), so that the cycle is freed by that collection.
C22_PartlySuspectCycleFreed ==
    [][Collect =>
         \A a \in suspects :
             (/\ OnCycle(St, a)
              /\ SameCycle(St, a) \subseteq Garbage(St)
              /\ ~(SameCycle(St, a) \subseteq suspects)
              /\ \A m \in SameCycle(St, a) : ~borrowed[m])
             => /\ work'.phase = "destroy"
                /\ SameCycle(St, a) \subseteq work'.all]_vars

\* C23: the outcome of a collection does not depend on processing order.
\* Whatever the order in which the suspects are gone through and in which
\* each payload enumerates its handles, the suspects classified unreachable
\* are the same set, the one collect_all destroys; while the destructors
\* run, in whatever order, the set of victims stays as it was fixed at the
\* start and no count of a survivor changes; and when the collection returns
\* exactly the victims are destroyed and released, once each.
C23_OrderIndependent ==
    /\ [](\A ord \in SuspectOrders(suspects) :
            \A ho \in PayloadOrders(St, suspects) :
                UnreachableInOrder(St, suspects, ord, ho) = Unreachable(St, suspects))
    /\ [][/\ work'.phase = "idle" \/ work.phase = "destroy" \/ ~Collect
             \/ work'.all = Unreachable(St, suspects)
          /\ work.phase = "destroy" =>
                \A a \in Allocs \ work.all :
                    /\ ref_count'[a] = ref_count[a]
                    /\ dropped'[a] = dropped[a]
                    /\ freed'[a] = freed[a]
          /\ work.phase = "destroy" /\ work'.phase = "destroy" =>
                work'.all = work.all
          /\ work.phase = "destroy" /\ work'.phase = "idle" =>
                \A u \in work.all : dropped'[u] = 1 /\ freed'[u] = 1]_vars

\* C23 witness: a collection of two victims is under way, one payload
\* destroyed and the other not yet; the destroyed payload held handles to
\* both victims and its drop glue has dropped one of them so far.
C23_Witness ==
    /\ collecting
    /\ Cardinality(work.all) = 2
    /\ Cardinality(work.todo) = 1
    /\ stack # <<>>
    /\ stack[Len(stack)].by = "collect"
    /\ \A t \in work.all : stack[Len(stack)].orig[t] > 0
    /\ BagSize(stack[Len(stack)].fields) = BagSize(stack[Len(stack)].orig) - 1

=============================================================================
